---- MODULE Spec2Model ----
(***************************************************************************)
(* AJ Burgers inventory application (src/app.py): the SQLite table         *)
(* `inventory`, the dashboard view, the bulk update of quantities and      *)
(* thresholds, and the order view with its order message, as two request   *)
(* threads run them: each request first runs init_db, whose steps create   *)
(* and seed the database file, and a bulk update holds the write lock from *)
(* its first UPDATE to its commit.                                         *)
(*                                                                         *)
(* Text (form keys, form values, item names, the order message) is a       *)
(* sequence of one-character strings, so that the parsing and formatting   *)
(* the handlers do (int(), str.split, f-strings) is computed, not assumed. *)
(***************************************************************************)
EXTENDS Integers, Sequences, FiniteSets, TLC

\* db_file: inventory.db is "absent", an "empty" file, or holds the "table".
\* inventory: the committed rows of the table, as every connection reads them.
\* write_lock: "free", or the thread whose open transaction holds SQLite's
\* write lock, or "leaked" when the connection of a failed bulk update is
\* still alive with its transaction open.
\* threads: the position of each request thread, and the form and the
\* uncommitted rows of a bulk update in flight.
\* form, fetched, resp: the form of the last request a view answered, the
\* rows its handler fetched, and the last response.
VARIABLES db_file, inventory, write_lock, threads, form, fetched, resp

vars == <<db_file, inventory, write_lock, threads, form, fetched, resp>>

(***************************************************************************)
(* Bounds of the model.                                                    *)
(***************************************************************************)
\* Largest number a submitted quantity or threshold text spells.
MaxQty == 1
\* Largest number a submitted order quantity text spells.
MaxOrderQty == 2

(***************************************************************************)
(* Text helpers.                                                           *)
(***************************************************************************)
\* Python's None (a missing form field); no text equals it.
None == <<"None">>

\* The characters the model uses, in increasing code point order.
CodePointOrder ==
  <<"\n", " ", "!", "&", "(", ")", "+", "-", ".", "0", "1", "2", "3", "4",
    "5", "6", "7", "8", "9", "A", "B", "C", "D", "E", "F", "G", "H", "I",
    "J", "K", "L", "M", "N", "O", "P", "Q", "R", "S", "T", "U", "V", "W",
    "X", "Y", "Z", "_", "a", "b", "c", "d", "e", "f", "g", "h", "i", "j",
    "k", "l", "m", "n", "o", "p", "q", "r", "s", "t", "u", "v", "w", "x",
    "y", "z">>

Rank ==
  [c \in {CodePointOrder[i] : i \in 1..Len(CodePointOrder)} |->
     CHOOSE i \in 1..Len(CodePointOrder) : CodePointOrder[i] = c]

Ord(c) == Rank[c]

Digits == <<"0", "1", "2", "3", "4", "5", "6", "7", "8", "9">>

IsDigit(c) == c \in {"0", "1", "2", "3", "4", "5", "6", "7", "8", "9"}

DigitVal(c) == (CHOOSE i \in 1..10 : Digits[i] = c) - 1

IsSpace(c) == c \in {" ", "\n"}

\* BINARY collation of SQLite: bytewise comparison, a proper prefix first.
RECURSIVE TextLess(_, _)
TextLess(a, b) ==
  IF b = <<>> THEN FALSE
  ELSE IF a = <<>> THEN TRUE
  ELSE IF Head(a) = Head(b) THEN TextLess(Tail(a), Tail(b))
  ELSE Ord(Head(a)) < Ord(Head(b))

\* str.startswith
StartsWith(s, p) == Len(s) >= Len(p) /\ SubSeq(s, 1, Len(p)) = p

\* str.split(sep) for a one-character separator: the list of fields.
RECURSIVE SplitFrom(_, _, _, _)
SplitFrom(s, sep, start, i) ==
  IF i > Len(s) THEN <<SubSeq(s, start, Len(s))>>
  ELSE IF s[i] = sep
    THEN <<SubSeq(s, start, i - 1)>> \o SplitFrom(s, sep, i + 1, i + 1)
  ELSE SplitFrom(s, sep, start, i + 1)

Split(s, sep) == SplitFrom(s, sep, 1, 1)

\* str.strip(): int() ignores surrounding whitespace.
RECURSIVE Strip(_)
Strip(s) ==
  IF s = <<>> THEN s
  ELSE IF IsSpace(Head(s)) THEN Strip(Tail(s))
  ELSE IF IsSpace(s[Len(s)]) THEN Strip(SubSeq(s, 1, Len(s) - 1))
  ELSE s

\* The digits of an int() literal body: digits, single underscores between.
IsIntBody(s) ==
  /\ s # <<>>
  /\ IsDigit(s[1])
  /\ IsDigit(s[Len(s)])
  /\ \A i \in 1..Len(s) : IsDigit(s[i]) \/ s[i] = "_"
  /\ \A i \in 1..(Len(s) - 1) : ~(s[i] = "_" /\ s[i + 1] = "_")

\* The digits of an int() literal body without underscores and leading zeros.
RECURSIVE Significant(_)
Significant(s) ==
  IF Head(s) = "_" \/ (Head(s) = "0" /\ Len(s) > 1) THEN Significant(Tail(s))
  ELSE SelectSeq(s, IsDigit)

\* A Python int (arbitrary precision): its sign and its decimal digits.
Zero == [ok |-> TRUE, neg |-> FALSE, digits |-> <<"0">>]

ValueError == [ok |-> FALSE, neg |-> FALSE, digits |-> <<>>]

\* sys.int_info.default_max_str_digits: int() refuses a decimal text of more
\* digits. Sign, underscores and surrounding whitespace do not count, leading
\* zeros do.
MAX_STR_DIGITS == 4300

WithinDigitLimit(body) ==
  \/ Len(body) <= MAX_STR_DIGITS
  \/ Len(SelectSeq(body, IsDigit)) <= MAX_STR_DIGITS

\* Python int(text): the integer, or ValueError (ok = FALSE).
PyInt(text) ==
  LET s    == Strip(text)
      sgn  == s # <<>> /\ s[1] \in {"+", "-"}
      body == IF sgn THEN Tail(s) ELSE s
  IN IF WithinDigitLimit(body) /\ IsIntBody(body)
       THEN [ok |-> TRUE,
             neg |-> sgn /\ s[1] = "-" /\ Significant(body) # <<"0">>,
             digits |-> Significant(body)]
       ELSE ValueError

IsPositive(n) == ~n.neg /\ n.digits # <<"0">>

\* str(n) of a Python int, as an f-string interpolates it.
PyStr(n) == (IF n.neg THEN <<"-">> ELSE <<>>) \o n.digits

\* The magnitudes of the largest and the smallest 64-bit integer.
INT64_MAX ==
  <<"9", "2", "2", "3", "3", "7", "2", "0", "3", "6", "8", "5", "4", "7", "7",
    "5", "8", "0", "7">>

INT64_MIN ==
  <<"9", "2", "2", "3", "3", "7", "2", "0", "3", "6", "8", "5", "4", "7", "7",
    "5", "8", "0", "8">>

\* Binding a Python int to an SQL parameter raises OverflowError unless it
\* fits SQLite's 64-bit INTEGER.
FitsInt64(n) ==
  LET limit == IF n.neg THEN INT64_MIN ELSE INT64_MAX
  IN \/ Len(n.digits) < Len(limit)
     \/ Len(n.digits) = Len(limit) /\ ~TextLess(limit, n.digits)

\* The value of a Python int as a number of the model.
RECURSIVE DigitsVal(_, _)
DigitsVal(s, acc) ==
  IF s = <<>> THEN acc
  ELSE DigitsVal(Tail(s), acc * 10 + DigitVal(Head(s)))

IntVal(n) == IF n.neg THEN 0 - DigitsVal(n.digits, 0) ELSE DigitsVal(n.digits, 0)

\* The decimal text of a number of the model.
RECURSIVE NatStr(_)
NatStr(n) ==
  IF n < 10 THEN <<Digits[n + 1]>>
  ELSE NatStr(n \div 10) \o <<Digits[(n % 10) + 1]>>

Str(n) == IF n < 0 THEN <<"-">> \o NatStr(0 - n) ELSE NatStr(n)

max(a, b) == IF a >= b THEN a ELSE b

(***************************************************************************)
(* Form access (werkzeug MultiDict): a form is the sequence of its         *)
(* <<key, value>> fields in submission order.                              *)
(***************************************************************************)
\* request.form.get(key): the first value of the key, or None.
FormGet(f, key) ==
  IF \E i \in 1..Len(f) : f[i][1] = key
    THEN f[CHOOSE i \in 1..Len(f) :
             f[i][1] = key /\ \A j \in 1..(i - 1) : f[j][1] # key][2]
    ELSE None

\* request.form.items(): each key once, with its first value.
FormItems(f) ==
  LET keep == {i \in 1..Len(f) : \A j \in 1..(i - 1) : f[j][1] # f[i][1]}
      RECURSIVE Pick(_)
      Pick(i) == IF i > Len(f) THEN <<>>
                 ELSE IF i \in keep THEN <<f[i]>> \o Pick(i + 1)
                 ELSE Pick(i + 1)
  IN Pick(1)

(***************************************************************************)
(* The seeded table.                                                       *)
(***************************************************************************)
\* DEFAULT_INVENTORY, in dictionary order.
DEFAULT_INVENTORY ==
  <<
     [category |-> <<"B", "u", "n", "s", " ", "&", " ", "C", "h", "i", "p",
          "s">>,
      items |-> <<
          [item_name |-> <<"C", "h", "i", "p", "s">>,
           threshold |-> 20],
          [item_name |-> <<"B", "u", "n", "s">>,
           threshold |-> 30] >>],
     [category |-> <<"V", "e", "g", "g", "i", "e", "s">>,
      items |-> <<
          [item_name |-> <<"L", "e", "t", "t", "u", "c", "e">>,
           threshold |-> 10],
          [item_name |-> <<"T", "o", "m", "a", "t", "o", "e", "s">>,
           threshold |-> 10],
          [item_name |-> <<"O", "n", "i", "o", "n", "s">>,
           threshold |-> 10],
          [item_name |-> <<"P", "i", "c", "k", "l", "e", "s">>,
           threshold |-> 5],
          [item_name |-> <<"B", "e", "e", "t", "r", "o", "o", "t">>,
           threshold |-> 5] >>],
     [category |-> <<"M", "e", "a", "t", "s", " ", "&", " ", "P", "o", "u",
          "l", "t", "r", "y">>,
      items |-> <<
          [item_name |-> <<"C", "h", "i", "c", "k", "e", "n">>,
           threshold |-> 10],
          [item_name |-> <<"B", "e", "e", "f">>,
           threshold |-> 10],
          [item_name |-> <<"W", "a", "g", "y", "u">>,
           threshold |-> 5],
          [item_name |-> <<"E", "g", "g", "s">>,
           threshold |-> 24] >>],
     [category |-> <<"C", "h", "e", "e", "s", "e", "s">>,
      items |-> <<
          [item_name |-> <<"B", "l", "o", "c", "k">>,
           threshold |-> 5],
          [item_name |-> <<"S", "h", "r", "e", "d", "d", "e", "d", " ", "C",
             "h", "e", "e", "s", "e">>,
           threshold |-> 5],
          [item_name |-> <<"B", "u", "t", "t", "e", "r">>,
           threshold |-> 5] >>],
     [category |-> <<"D", "r", "i", "n", "k", "s">>,
      items |-> <<
          [item_name |-> <<"C", "o", "k", "e">>,
           threshold |-> 24],
          [item_name |-> <<"C", "o", "k", "e", " ", "Z", "e", "r", "o">>,
           threshold |-> 24],
          [item_name |-> <<"S", "o", "l", "o">>,
           threshold |-> 24],
          [item_name |-> <<"F", "a", "n", "t", "a">>,
           threshold |-> 24],
          [item_name |-> <<"W", "a", "t", "e", "r">>,
           threshold |-> 24] >>],
     [category |-> <<"S", "a", "u", "c", "e", "s", " ", "&", " ", "C", "o",
          "n", "d", "i", "m", "e", "n", "t", "s">>,
      items |-> <<
          [item_name |-> <<"K", "e", "t", "c", "h", "u", "p">>,
           threshold |-> 5],
          [item_name |-> <<"C", "h", "i", "l", "l", "i">>,
           threshold |-> 5],
          [item_name |-> <<"M", "u", "s", "t", "a", "r", "d">>,
           threshold |-> 5],
          [item_name |-> <<"M", "a", "y", "o", "n", "n", "a", "i", "s", "e">>,
           threshold |-> 5],
          [item_name |-> <<"B", "B", "Q", " ", "s", "a", "u", "c", "e">>,
           threshold |-> 5],
          [item_name |-> <<"S", "p", "e", "c", "i", "a", "l", " ", "S", "a",
             "u", "c", "e">>,
           threshold |-> 5] >>],
     [category |-> <<"P", "a", "c", "k", "a", "g", "i", "n", "g", " ", "&",
          " ", "D", "e", "l", "i", "v", "e", "r", "y">>,
      items |-> <<
          [item_name |-> <<"B", "u", "r", "g", "e", "r", " ", "b", "o", "x",
             "e", "s">>,
           threshold |-> 50],
          [item_name |-> <<"U", "b", "e", "r", " ", "b", "a", "g", "s">>,
           threshold |-> 20],
          [item_name |-> <<"P", "l", "a", "s", "t", "i", "c", " ", "B", "a",
             "g", "s">>,
           threshold |-> 50] >>],
     [category |-> <<"C", "l", "e", "a", "n", "i", "n", "g", " ", "M", "a",
          "t", "e", "r", "i", "a", "l", "s">>,
      items |-> <<
          [item_name |-> <<"D", "i", "s", "h", " ", "s", "o", "a", "p">>,
           threshold |-> 2],
          [item_name |-> <<"H", "a", "n", "d", " ", "S", "o", "a", "p">>,
           threshold |-> 2],
          [item_name |-> <<"F", "l", "o", "o", "r", " ", "C", "l", "e", "a",
             "n", "i", "n", "g", " ", "L", "i", "q", "u", "i", "d">>,
           threshold |-> 2],
          [item_name |-> <<"P", "a", "p", "e", "r", " ", "t", "o", "w", "e",
             "l", "s">>,
           threshold |-> 12],
          [item_name |-> <<"S", "i", "l", "v", "e", "r", " ", "S", "c", "r",
             "u", "b", "b", "e", "r", "s">>,
           threshold |-> 5],
          [item_name |-> <<"L", "e", "m", "o", "n", " ", "J", "u", "i", "c",
             "e">>,
           threshold |-> 5],
          [item_name |-> <<"G", "l", "o", "v", "e", "s">>,
           threshold |-> 20],
          [item_name |-> <<"S", "p", "r", "a", "y", "s">>,
           threshold |-> 2] >>],
     [category |-> <<"S", "t", "a", "t", "i", "o", "n", "e", "r", "y">>,
      items |-> <<
          [item_name |-> <<"O", "r", "d", "e", "r", " ", "p", "a", "d", "s">>,
           threshold |-> 5],
          [item_name |-> <<"P", "e", "n", "s">>,
           threshold |-> 12],
          [item_name |-> <<"M", "a", "r", "k", "e", "r", "s">>,
           threshold |-> 6],
          [item_name |-> <<"R", "e", "c", "e", "i", "p", "t", " ", "r", "o",
             "l", "l", "s">>,
           threshold |-> 10],
          [item_name |-> <<"S", "t", "a", "p", "l", "e", "r", "s">>,
           threshold |-> 2] >>],
     [category |-> <<"O", "i", "l", "s", " ", "&", " ", "G", "a", "s">>,
      items |-> <<
          [item_name |-> <<"C", "o", "o", "k", "i", "n", "g", " ", "o", "i",
             "l">>,
           threshold |-> 10],
          [item_name |-> <<"G", "a", "s">>,
           threshold |-> 3],
          [item_name |-> <<"S", "m", "a", "l", "l", " ", "G", "a", "s">>,
           threshold |-> 3] >>],
     [category |-> <<"S", "a", "l", "t", " ", "&", " ", "S", "p", "i", "c",
          "e", "s">>,
      items |-> <<
          [item_name |-> <<"C", "h", "i", "c", "k", "e", "n", " ", "S", "a",
             "l", "t">>,
           threshold |-> 5],
          [item_name |-> <<"N", "o", "r", "m", "a", "l", " ", "S", "a", "l",
             "t">>,
           threshold |-> 5],
          [item_name |-> <<"T", "a", "s", "t", "i", "n", "g", " ", "S", "a",
             "l", "t">>,
           threshold |-> 5],
          [item_name |-> <<"G", "r", "o", "u", "n", "d", " ", "P", "e", "p",
             "p", "e", "r">>,
           threshold |-> 5] >>],
     [category |-> <<"O", "t", "h", "e", "r", "s">>,
      items |-> <<>>]
  >>

\* init_db: one row per item, AUTOINCREMENT ids in insertion order,
\* quantity 0 and the default threshold.
RECURSIVE SeedRows(_, _, _)
SeedRows(cats, items, nextId) ==
  IF items # <<>>
    THEN << [id |-> nextId,
             item_name |-> Head(items).item_name,
             category |-> Head(cats).category,
             quantity |-> 0,
             threshold |-> Head(items).threshold] >>
         \o SeedRows(cats, Tail(items), nextId + 1)
  ELSE IF Len(cats) > 1
    THEN SeedRows(Tail(cats), Tail(cats)[1].items, nextId)
  ELSE <<>>

init_db == SeedRows(DEFAULT_INVENTORY, DEFAULT_INVENTORY[1].items, 1)

ItemIds == {init_db[i].id : i \in 1..Len(init_db)}

(***************************************************************************)
(* Request threads. The development server answers each request on a      *)
(* thread of its own; every thread opens its own connections. Threads are  *)
(* interchangeable: a new request is served by the first idle thread. No   *)
(* step before a handler reads the request, so that its form is chosen     *)
(* when the handler starts.                                                *)
(***************************************************************************)
Threads == {"t1", "t2"}

\* A thread at "ready" takes a new request, or has just left init_db.
Idle == [pc |-> "ready", form |-> <<>>, pending |-> <<>>]

Init ==
  /\ db_file = "absent"
  /\ inventory = <<>>
  /\ write_lock = "free"
  /\ threads = [t \in Threads |-> Idle]
  /\ form = <<>>
  /\ fetched = <<>>
  /\ resp = [view |-> "none"]

Earlier(u, t) == u = "t1" /\ t = "t2"

Free(t) ==
  /\ threads[t].pc = "ready"
  /\ \A u \in Threads : Earlier(u, t) => threads[u].pc # "ready"

\* The exceptions a request ends with; each is answered by status 500.
NO_SUCH_TABLE == "OperationalError: no such table: inventory"
TABLE_EXISTS == "OperationalError: table inventory already exists"
LOCKED == "OperationalError: database is locked"
OVERFLOW == "OverflowError: Python int too large to convert to SQLite INTEGER"

Error(exception) == [view |-> "error", status |-> 500, exception |-> exception]

\* A request that ends with an exception.
Raise(t, exception) ==
  /\ resp' = Error(exception)
  /\ form' = <<>>
  /\ fetched' = <<>>
  /\ threads' = [threads EXCEPT ![t] = Idle]

(***************************************************************************)
(* before_request: ensure_db -> init_db, step by step.                     *)
(***************************************************************************)
\* os.path.exists("inventory.db") is false: the request goes on to seed.
\* (When the file exists init_db returns, and the handler's steps follow.)
EnsureDb(t) ==
  /\ Free(t)
  /\ db_file = "absent"
  /\ threads' = [threads EXCEPT ![t].pc = "connect"]
  /\ UNCHANGED <<db_file, inventory, write_lock, form, fetched, resp>>

\* sqlite3.connect creates the file when it is not there.
Connect(t) ==
  /\ threads[t].pc = "connect"
  /\ db_file' = IF db_file = "absent" THEN "empty" ELSE db_file
  /\ threads' = [threads EXCEPT ![t].pc = "create"]
  /\ UNCHANGED <<inventory, write_lock, form, fetched, resp>>

\* CREATE TABLE inventory: committed at once; it raises when another request
\* has created the table since this one found no file.
CreateTable(t) ==
  /\ threads[t].pc = "create"
  /\ IF db_file = "table"
       THEN /\ Raise(t, TABLE_EXISTS)
            /\ UNCHANGED db_file
       ELSE /\ db_file' = "table"
            /\ threads' = [threads EXCEPT ![t].pc = "insert"]
            /\ UNCHANGED <<form, fetched, resp>>
  /\ UNCHANGED <<inventory, write_lock>>

\* The INSERT loop: its first statement opens the transaction and takes the
\* write lock, or raises when another connection keeps the lock.
Insert(t) ==
  /\ threads[t].pc = "insert"
  /\ IF write_lock # "free"
       THEN /\ Raise(t, LOCKED)
            /\ UNCHANGED write_lock
       ELSE /\ write_lock' = t
            /\ threads' = [threads EXCEPT ![t].pc = "seed_commit"]
            /\ UNCHANGED <<form, fetched, resp>>
  /\ UNCHANGED <<db_file, inventory>>

\* conn.commit() and conn.close() of init_db. The request's handler follows:
\* the thread is where a thread is that has just found the file.
SeedCommit(t) ==
  /\ threads[t].pc = "seed_commit"
  /\ inventory' = init_db
  /\ write_lock' = "free"
  /\ threads' = [threads EXCEPT ![t].pc = "ready"]
  /\ UNCHANGED <<db_file, form, fetched, resp>>

Seed(t) ==
  EnsureDb(t) \/ Connect(t) \/ CreateTable(t) \/ Insert(t) \/ SeedCommit(t)

\* The thread is about to run a handler: os.path.exists("inventory.db") is
\* true and init_db returns, or the thread has seeded the table itself.
CanHandle(t) == Free(t) /\ db_file # "absent"

\* A request that a view answers.
Answer(t, f, rows, response) ==
  /\ resp' = response
  /\ form' = f
  /\ fetched' = rows
  /\ threads' = [threads EXCEPT ![t] = Idle]

(***************************************************************************)
(* GET / : the dashboard.                                                  *)
(***************************************************************************)
\* Variant: an item exactly at its threshold counts as low.
StatusInclusive(row) ==
  IF row.quantity = 0 THEN "needs"
  ELSE IF row.quantity <= row.threshold THEN "low"
  ELSE "good"

\* The status expression of the grouping loop.
Status(row) ==
  IF row.quantity = 0 THEN "needs"
  ELSE IF row.quantity < row.threshold THEN "low"
  ELSE "good"

\* The summary metrics.
Summary(rows) ==
  LET total_items  == Len(rows)
      low_items    == Cardinality({i \in 1..Len(rows) :
                        rows[i].quantity < rows[i].threshold
                        /\ rows[i].quantity > 0})
      out_of_stock == Cardinality({i \in 1..Len(rows) : rows[i].quantity = 0})
      good_items   == total_items - low_items - out_of_stock
  IN [total |-> total_items, low |-> low_items,
      out |-> out_of_stock, good |-> good_items]

\* Variant: every row starts its category's buckets afresh, so that only
\* the last row of a category stays.
GroupedAfresh(rows) ==
  [cat \in {rows[i].category : i \in 1..Len(rows)} |->
     LET last == CHOOSE i \in 1..Len(rows) :
                   /\ rows[i].category = cat
                   /\ \A j \in (i + 1)..Len(rows) : rows[j].category # cat
     IN [status \in {"needs", "low", "good"} |->
           IF Status(rows[last]) = status THEN <<rows[last]>> ELSE <<>>]]

\* The grouping loop: category -> status -> rows, in row order. A category
\* gets its three buckets with its first row; each row is appended to the
\* bucket of its status.
Grouped(rows) ==
  [cat \in {rows[i].category : i \in 1..Len(rows)} |->
     [status \in {"needs", "low", "good"} |->
        LET Placed(row) == row.category = cat /\ Status(row) = status
        IN SelectSeq(rows, Placed)]]

\* SELECT * FROM inventory reads the committed rows in rowid order.
Dashboard(t) ==
  /\ CanHandle(t)
  /\ IF db_file # "table" THEN Raise(t, NO_SUCH_TABLE)
     ELSE Answer(t, <<>>, inventory,
                 [view |-> "dashboard",
                  summary |-> Summary(inventory),
                  grouped |-> Grouped(inventory)])
  /\ UNCHANGED <<db_file, inventory, write_lock>>

(***************************************************************************)
(* POST /inventory : the bulk update.                                      *)
(***************************************************************************)
QUANTITY_ == <<"q", "u", "a", "n", "t", "i", "t", "y", "_">>
THRESHOLD_ == <<"t", "h", "r", "e", "s", "h", "o", "l", "d", "_">>

\* UPDATE inventory SET quantity = ?, threshold = ? WHERE id = ?
UpdateBoth(rows, item_id, quantity, threshold) ==
  [i \in 1..Len(rows) |->
     IF Str(rows[i].id) = PyStr(item_id)
       THEN [rows[i] EXCEPT !.quantity = IntVal(quantity),
                            !.threshold = IntVal(threshold)]
       ELSE rows[i]]

\* UPDATE inventory SET quantity = ? WHERE id = ?
UpdateQuantity(rows, item_id, quantity) ==
  [i \in 1..Len(rows) |->
     IF Str(rows[i].id) = PyStr(item_id)
       THEN [rows[i] EXCEPT !.quantity = IntVal(quantity)]
       ELSE rows[i]]

\* conn.execute of one UPDATE. Preparing the statement raises
\* OperationalError when there is no table; binding a number that does not
\* fit 64 bits raises OverflowError; then the statement waits for the write
\* lock, and raises OperationalError (database is locked) when another
\* connection keeps it for the busy timeout; else the transaction holds the
\* lock and sees the changed rows.
Execute(rows, table, busy, fits, updated) ==
  IF ~table THEN [raised |-> NO_SUCH_TABLE, rows |-> rows, wrote |-> FALSE]
  ELSE IF ~fits THEN [raised |-> OVERFLOW, rows |-> rows, wrote |-> FALSE]
  ELSE IF busy THEN [raised |-> LOCKED, rows |-> rows, wrote |-> FALSE]
  ELSE [raised |-> "", rows |-> updated, wrote |-> TRUE]

Skip(rows) == [raised |-> "", rows |-> rows, wrote |-> FALSE]

\* One pass of the loop body over a form field: the table as the open
\* transaction sees it, the exception an UPDATE raised, and whether an
\* UPDATE was executed.
ApplyField(rows, f, key, value, table, busy) ==
  IF ~StartsWith(key, QUANTITY_) THEN Skip(rows)
  ELSE LET item_id == PyInt(Split(key, "_")[2])
       IN IF ~item_id.ok THEN Skip(rows)
          ELSE LET q               == PyInt(value)
                   quantity        == IF q.ok THEN q ELSE Zero
                   threshold_value == FormGet(f, THRESHOLD_ \o PyStr(item_id))
                   t               == PyInt(threshold_value)
                   threshold       == IF t.ok THEN t ELSE Zero
               IN IF threshold_value # None
                    THEN Execute(rows, table, busy,
                                 FitsInt64(quantity) /\ FitsInt64(threshold)
                                   /\ FitsInt64(item_id),
                                 UpdateBoth(rows, item_id, quantity, threshold))
                    ELSE Execute(rows, table, busy,
                                 FitsInt64(quantity) /\ FitsInt64(item_id),
                                 UpdateQuantity(rows, item_id, quantity))

\* The loop over request.form.items(); an exception ends it.
RECURSIVE ApplyFields(_, _, _, _, _, _)
ApplyFields(rows, f, items, table, busy, wrote) ==
  IF items = <<>> THEN [raised |-> "", rows |-> rows, wrote |-> wrote]
  ELSE LET step == ApplyField(rows, f, Head(items)[1], Head(items)[2],
                              table, busy)
       IN IF step.raised # ""
            THEN [raised |-> step.raised, rows |-> rows, wrote |-> wrote]
            ELSE ApplyFields(step.rows, f, Tail(items), table, busy,
                             wrote \/ step.wrote)

\* The loop of the POST branch. Its first UPDATE opens the transaction and
\* takes the write lock, which the request keeps until its commit; the
\* later statements run inside that transaction, unseen by other
\* connections. An exception leaves the handler before conn.commit() and
\* conn.close(): nothing is committed, and the connection stays alive with
\* its transaction open, keeping the write lock if it executed an UPDATE.
InventoryPost(t, f) ==
  /\ CanHandle(t)
  /\ \E done \in {ApplyFields(inventory, f, FormItems(f), db_file = "table",
                              write_lock # "free", FALSE)} :
       IF done.raised # ""
         THEN /\ Raise(t, done.raised)
              /\ write_lock' = IF done.wrote THEN "leaked" ELSE write_lock
         ELSE /\ threads' = [threads EXCEPT ![t] =
                               [pc |-> "commit", form |-> f,
                                pending |-> IF done.wrote THEN done.rows
                                            ELSE <<>>]]
              /\ write_lock' = IF done.wrote THEN t ELSE write_lock
              /\ UNCHANGED <<form, fetched, resp>>
  /\ UNCHANGED <<db_file, inventory>>

\* conn.commit(), conn.close(), flash and redirect: the rows of the
\* transaction become the committed rows and the write lock is released.
Commit(t) ==
  /\ threads[t].pc = "commit"
  /\ inventory' = IF write_lock = t THEN threads[t].pending ELSE inventory
  /\ write_lock' = IF write_lock = t THEN "free" ELSE write_lock
  /\ Answer(t, <<>>, <<>>,
            [view |-> "redirect_inventory",
             flash |-> "Inventory updated successfully!"])
  /\ UNCHANGED db_file

\* The connection of a failed request is finalised once nothing refers to it
\* any more: its transaction is rolled back and the write lock released.
Finalise ==
  /\ write_lock = "leaked"
  /\ write_lock' = "free"
  /\ UNCHANGED <<db_file, inventory, threads, form, fetched, resp>>

(***************************************************************************)
(* GET /inventory and GET /order : the update page and the order view.     *)
(***************************************************************************)
\* ORDER BY category, item_name
RowLess(a, b) ==
  IF a.category = b.category THEN TextLess(a.item_name, b.item_name)
  ELSE TextLess(a.category, b.category)

RECURSIVE InsertSorted(_, _)
InsertSorted(row, sorted) ==
  IF sorted = <<>> THEN <<row>>
  ELSE IF RowLess(row, Head(sorted)) THEN <<row>> \o sorted
  ELSE <<Head(sorted)>> \o InsertSorted(row, Tail(sorted))

RECURSIVE Sorted(_)
Sorted(rows) ==
  IF rows = <<>> THEN <<>>
  ELSE InsertSorted(rows[Len(rows)], Sorted(SubSeq(rows, 1, Len(rows) - 1)))

\* The columns the ORDER BY reads, and the row positions in sorted order.
SortKeys(rows) ==
  [i \in 1..Len(rows) |->
     [category |-> rows[i].category, item_name |-> rows[i].item_name, pos |-> i]]

SortedPositions(rows) ==
  LET sorted == Sorted(SortKeys(rows))
  IN [k \in 1..Len(rows) |-> sorted[k].pos]

\* No statement changes a category or an item name: the sorted positions of
\* the seeded rows are computed once and used whenever the rows carry the
\* seeded keys.
SeedKeys == SortKeys(init_db)

SeedPositions == SortedPositions(init_db)

\* Variant: no ORDER BY, the rows come in rowid order.
OrderByRowid(rows) == rows

OrderBy(rows) ==
  LET positions == IF SortKeys(rows) = SeedKeys THEN SeedPositions
                   ELSE SortedPositions(rows)
  IN [k \in 1..Len(rows) |-> rows[positions[k]]]

\* The GET branch of inventory(): the rows in (category, name) order.
InventoryGet(t) ==
  /\ CanHandle(t)
  /\ IF db_file # "table" THEN Raise(t, NO_SUCH_TABLE)
     ELSE \E items \in {OrderBy(inventory)} :
            Answer(t, <<>>, items, [view |-> "update", items |-> items])
  /\ UNCHANGED <<db_file, inventory, write_lock>>

\* Variant: only items strictly below their threshold are candidates.
IsCandidateStrict(row) == row.quantity < row.threshold

IsCandidate(row) == row.quantity <= row.threshold

Suggested(row) == max(row.threshold * 2 - row.quantity, row.threshold)

\* The filter loop building order_items, after its first n rows.
RECURSIVE OrderItems(_, _)
OrderItems(rows, n) ==
  IF n = 0 THEN <<>>
  ELSE IF IsCandidate(rows[n])
    THEN Append(OrderItems(rows, n - 1),
                [id |-> rows[n].id,
                 name |-> rows[n].item_name,
                 category |-> rows[n].category,
                 current_qty |-> rows[n].quantity,
                 threshold |-> rows[n].threshold,
                 suggested_order |-> Suggested(rows[n])])
  ELSE OrderItems(rows, n - 1)

OrderGet(t) ==
  /\ CanHandle(t)
  /\ IF db_file # "table" THEN Raise(t, NO_SUCH_TABLE)
     ELSE \E items \in {OrderBy(inventory)} :
            Answer(t, <<>>, items,
                   [view |-> "order",
                    order_items |-> OrderItems(items, Len(items))])
  /\ UNCHANGED <<db_file, inventory, write_lock>>

(***************************************************************************)
(* POST /order : the order message.                                        *)
(***************************************************************************)
ORDER_QTY_ == <<"o", "r", "d", "e", "r", "_", "q", "t", "y", "_">>
NOTE_ == <<"n", "o", "t", "e", "_">>

HEADER ==
  <<"O", "R", "D", "E", "R", " ", "L", "I", "S", "T", " ", "-", " ", "A", "J",
    " ", "B", "U", "R", "G", "E", "R", "S", "\n">>

\* Python truthiness of a form value: None and the empty text are falsy.
Truthy(v) == v # None /\ v # <<>>

\* Variant: a requested quantity of 0 also gives a line.
RECURSIVE LinesFromZero(_, _, _)
LinesFromZero(items, f, n) ==
  IF n = 0 THEN <<>>
  ELSE LET item    == items[n]
           qty_str == FormGet(f, ORDER_QTY_ \o Str(item.id))
           note    == FormGet(f, NOTE_ \o Str(item.id))
           parsed  == PyInt(qty_str)
           qty     == IF Truthy(qty_str) /\ parsed.ok THEN parsed ELSE Zero
           line    == item.name \o <<" ", "x", " ">> \o PyStr(qty)
                      \o (IF Truthy(note) THEN <<" ", "(">> \o note \o <<")">>
                          ELSE <<>>)
       IN IF ~qty.neg THEN Append(LinesFromZero(items, f, n - 1), line)
          ELSE LinesFromZero(items, f, n - 1)

\* The loop over order_items building the message lines, after its first n
\* items.
RECURSIVE Lines(_, _, _)
Lines(items, f, n) ==
  IF n = 0 THEN <<>>
  ELSE LET item    == items[n]
           qty_str == FormGet(f, ORDER_QTY_ \o Str(item.id))
           note    == FormGet(f, NOTE_ \o Str(item.id))
           parsed  == PyInt(qty_str)
           qty     == IF Truthy(qty_str) /\ parsed.ok THEN parsed ELSE Zero
           line    == item.name \o <<" ", "x", " ">> \o PyStr(qty)
                      \o (IF Truthy(note) THEN <<" ", "(">> \o note \o <<")">>
                          ELSE <<>>)
       IN IF IsPositive(qty) THEN Append(Lines(items, f, n - 1), line)
          ELSE Lines(items, f, n - 1)

\* "\n".join(lines)
RECURSIVE Join(_)
Join(lines) ==
  IF lines = <<>> THEN <<>>
  ELSE IF Len(lines) = 1 THEN lines[1]
  ELSE lines[1] \o <<"\n">> \o Join(Tail(lines))

\* urllib.parse.quote (safe = "/"): letters, digits and "_.-~" are kept.
Quoted(c) ==
  IF c = "\n" THEN <<"%", "0", "A">>
  ELSE IF c = " " THEN <<"%", "2", "0">>
  ELSE IF c = "!" THEN <<"%", "2", "1">>
  ELSE IF c = "&" THEN <<"%", "2", "6">>
  ELSE IF c = "(" THEN <<"%", "2", "8">>
  ELSE IF c = ")" THEN <<"%", "2", "9">>
  ELSE IF c = "+" THEN <<"%", "2", "B">>
  ELSE <<c>>

\* Each character is quoted by itself; the text is halved to keep the
\* recursion shallow.
RECURSIVE quote(_)
quote(s) ==
  IF s = <<>> THEN <<>>
  ELSE IF Len(s) = 1 THEN Quoted(s[1])
  ELSE quote(SubSeq(s, 1, Len(s) \div 2))
       \o quote(SubSeq(s, Len(s) \div 2 + 1, Len(s)))

WHATSAPP ==
  <<"h", "t", "t", "p", "s", ":", "/", "/", "a", "p", "i", ".", "w", "h", "a",
    "t", "s", "a", "p", "p", ".", "c", "o", "m", "/", "s", "e", "n", "d", "?",
    "t", "e", "x", "t", "=">>

\* The response of the POST branch of order() over the rows it fetched.
Composed(rows, f) ==
  LET order_items == OrderItems(rows, Len(rows))
      lines       == Lines(order_items, f, Len(order_items))
      message     == HEADER \o Join(lines)
  IN IF lines = <<>>
       THEN [view |-> "redirect_order",
             flash |-> "No items selected for ordering."]
       ELSE [view |-> "order_message",
             order_message |-> message,
             whatsapp_url |-> WHATSAPP \o quote(message)]

OrderPost(t, f) ==
  /\ CanHandle(t)
  /\ IF db_file # "table" THEN Raise(t, NO_SUCH_TABLE)
     ELSE \E rows \in {OrderBy(inventory)} :
            Answer(t, f, rows, Composed(rows, f))
  /\ UNCHANGED <<db_file, inventory, write_lock>>

(***************************************************************************)
(* Inputs.                                                                 *)
(***************************************************************************)
\* The items the submitted forms name: those of the first category, Chips
\* and Buns.
FormIds == {init_db[i].id : i \in 1..Len(DEFAULT_INVENTORY[1].items)}

\* Submitted quantity and threshold texts: below zero, zero, and the
\* largest number.
UpdateTexts == {Str(0 - 1), Str(0), Str(MaxQty)}

ThresholdTexts == UpdateTexts

\* A decimal text one digit longer than int() converts.
LongText == [i \in 1..(MAX_STR_DIGITS + 1) |-> "1"]

\* The update page's fields of one item: quantity_<id>, alone or with
\* threshold_<id>.
Change(id, q, t) ==
  IF t = None THEN << <<QUANTITY_ \o Str(id), q>> >>
  ELSE << <<QUANTITY_ \o Str(id), q>>, <<THRESHOLD_ \o Str(id), t>> >>

\* One item's quantity, and for the first item also its threshold.
UpdateForms ==
  {Change(id, q, None) : id \in FormIds, q \in UpdateTexts}
  \cup {Change(init_db[1].id, q, t) : q \in UpdateTexts, t \in ThresholdTexts}

\* Batches: a change to Chips, then a change to Buns, with or without a
\* field whose key carries a malformed item identifier between them. A
\* quantity is a number, a non-number, or 2^63, which SQLite cannot store;
\* the threshold of Buns is left out or a number; and one batch carries a
\* text too long for int() as quantity and as threshold.
BatchQuantityTexts == {<<"1">>, <<"x">>, INT64_MIN}

BatchThresholdTexts == {None, <<"2">>}

MalformedFields == {<<QUANTITY_ \o <<"a">>, <<"1">>>>}

LongForms == {Change(1, <<"1">>, None) \o Change(2, LongText, LongText)}

BatchForms ==
  {Change(1, p, None) \o m \o Change(2, q, t)
   : p \in BatchQuantityTexts, q \in BatchQuantityTexts,
     t \in BatchThresholdTexts,
     m \in {<<>>} \cup {<<x>> : x \in MalformedFields}}
  \cup LongForms

\* Stock counts that make the first item an order candidate or not: nothing
\* left, or one more than its default threshold.
RestockForms ==
  {Change(init_db[1].id, Str(0), None),
   Change(init_db[1].id, Str(init_db[1].threshold + 1), None)}

\* The first item of the fourth category, Block of Cheeses: its category
\* sorts after that of Chips and Buns, its name before theirs.
OtherId ==
  Len(DEFAULT_INVENTORY[1].items) + Len(DEFAULT_INVENTORY[2].items)
  + Len(DEFAULT_INVENTORY[3].items) + 1

\* Order page fields: order_qty_<id> and note_<id>. Positive quantities are
\* the smallest and the largest. A form is empty; or submits one field; or
\* a quantity for Chips and a positive one for Buns; or positive quantities
\* for Chips and Block, or for Chips, Buns and Block; or a positive
\* quantity and a note for Chips; or a quantity too long for int().
PositiveTexts == {Str(1), Str(MaxOrderQty)}

OrderTexts == {<<>>, <<"x">>, <<"0">>, <<"-", "1">>} \cup PositiveTexts

NoteTexts == {<<>>, <<"o", "k">>}

OrderQty(id, q) == <<ORDER_QTY_ \o Str(id), q>>

Note(id, n) == <<NOTE_ \o Str(id), n>>

OrderForms ==
  {<<>>}
  \cup {<<OrderQty(id, q)>> : id \in FormIds, q \in OrderTexts}
  \cup {<<Note(id, n)>> : id \in FormIds, n \in NoteTexts}
  \cup {<<OrderQty(1, p), OrderQty(2, q)>>
         : p \in OrderTexts, q \in PositiveTexts}
  \cup {<<OrderQty(1, p), OrderQty(OtherId, q)>>
         : p \in PositiveTexts, q \in PositiveTexts}
  \cup {<<OrderQty(1, p), OrderQty(2, q), OrderQty(OtherId, p)>>
         : p \in PositiveTexts, q \in PositiveTexts}
  \cup {<<OrderQty(1, q), Note(1, n)>> : q \in PositiveTexts, n \in NoteTexts}
  \cup {<<OrderQty(1, LongText)>>}

(***************************************************************************)
(* Specifications.                                                         *)
(***************************************************************************)
Update(t) == \E f \in UpdateForms : InventoryPost(t, f)

Next ==
  \E t \in Threads :
    \/ Seed(t)
    \/ Dashboard(t)
    \/ InventoryGet(t)
    \/ OrderGet(t)
    \/ Update(t)
    \/ Commit(t)

\* The dashboard, the update page and the order view over every store the
\* update page reaches.
Spec == Init /\ [][Next]_vars

Batch(t) == \E f \in BatchForms : InventoryPost(t, f)

NextBatch ==
  \/ \E t \in Threads : Seed(t) \/ Batch(t) \/ Commit(t)
  \/ Finalise

\* Bulk updates of several items in one request.
SpecBatch == Init /\ [][NextBatch]_vars

Restock(t) == \E f \in RestockForms : InventoryPost(t, f)

Compose(t) == \E f \in OrderForms : OrderPost(t, f)

NextOrder ==
  \E t \in Threads : Seed(t) \/ Restock(t) \/ Commit(t) \/ Compose(t)

\* Order messages composed over stores with and without candidates.
SpecOrder == Init /\ [][NextOrder]_vars

(***************************************************************************)
(* Properties.                                                             *)
(***************************************************************************)
\* The rows the last answered request fetched, and the committed rows.
Rows == {fetched[i] : i \in 1..Len(fetched)}

RowOf(id) == CHOOSE r \in Rows : r.id = id

Stored == {inventory[i] : i \in 1..Len(inventory)}

Statuses == {"needs", "low", "good"}

\* The places <<category, status, position>> at which the dashboard's
\* grouping lists a row.
Places(row) ==
  UNION {{<<c, st, k>> : k \in {j \in 1..Len(resp.grouped[c][st]) :
                                  resp.grouped[c][st][j] = row}}
         : c \in DOMAIN resp.grouped, st \in Statuses}

InBucket(row, st) == \E p \in Places(row) : p[1] = row.category /\ p[2] = st

\* The number of rows the grouping lists under a status, over all categories.
BucketCount(st) ==
  Cardinality(UNION {{<<c, k>> : k \in 1..Len(resp.grouped[c][st])}
                     : c \in DOMAIN resp.grouped})

\* C1: on the dashboard, every item with quantity >= 0 and threshold >= 0 is
\* grouped under exactly one status, by priority: needs when quantity = 0
\* (whatever the threshold), else low when quantity < threshold, else good;
\* so it is good when quantity >= threshold > 0, and when threshold = 0 and
\* quantity > 0.
C1_ClassifyByPriority ==
  resp.view = "dashboard" =>
    \A row \in Rows :
      (row.quantity >= 0 /\ row.threshold >= 0) =>
        /\ Cardinality({st \in Statuses : InBucket(row, st)}) = 1
        /\ row.quantity = 0 => InBucket(row, "needs")
        /\ (row.quantity # 0 /\ row.quantity < row.threshold)
             => InBucket(row, "low")
        /\ (row.quantity # 0 /\ row.quantity >= row.threshold)
             => InBucket(row, "good")
        /\ (row.quantity >= row.threshold /\ row.threshold > 0)
             => InBucket(row, "good")
        /\ (row.threshold = 0 /\ row.quantity > 0) => InBucket(row, "good")

\* A dashboard showing an item exactly at its positive threshold under good,
\* an item below its threshold under low, and the others, out of stock,
\* under needs.
C1_Witness ==
  /\ resp.view = "dashboard"
  /\ \E r \in Rows : r.quantity = r.threshold /\ r.threshold > 0
                     /\ InBucket(r, "good")
  /\ \E r \in Rows : r.quantity > 0 /\ r.quantity < r.threshold
                     /\ InBucket(r, "low")
  /\ \E r \in Rows : r.quantity = 0 /\ InBucket(r, "needs")

\* C2: for every store content the dashboard yields total = needs + low +
\* good (as summary counts and as bucket sizes), and lists every item at
\* exactly one place, in a status bucket of its own category; the empty
\* store gives all zero counts and no category.
C2_TotalAndPartition ==
  /\ resp.view = "dashboard" =>
       /\ resp.summary.total = Len(fetched)
       /\ resp.summary.total
            = resp.summary.out + resp.summary.low + resp.summary.good
       /\ resp.summary.total
            = BucketCount("needs") + BucketCount("low") + BucketCount("good")
       /\ \A row \in Rows :
            /\ Cardinality(Places(row)) = 1
            /\ \A p \in Places(row) : p[1] = row.category
       /\ fetched = <<>> =>
            /\ resp.summary = [total |-> 0, low |-> 0, out |-> 0, good |-> 0]
            /\ DOMAIN resp.grouped = {}
  /\ Summary(<<>>) = [total |-> 0, low |-> 0, out |-> 0, good |-> 0]
  /\ DOMAIN Grouped(<<>>) = {}

\* A dashboard of all categories that have items (Others has none), one of
\* them holding two items in different status buckets.
C2_Witness ==
  /\ resp.view = "dashboard"
  /\ Cardinality(DOMAIN resp.grouped) = Len(DEFAULT_INVENTORY) - 1
  /\ \E c \in DOMAIN resp.grouped :
       Len(resp.grouped[c]["low"]) = 1 /\ Len(resp.grouped[c]["good"]) = 1
  /\ BucketCount("needs") = Len(fetched) - 2

\* The ids the order view lists.
ListedIds == {resp.order_items[k].id : k \in 1..Len(resp.order_items)}

\* C3: the order view lists an item if and only if its quantity <= its
\* threshold in the store the request read, and each listed item's
\* suggested quantity is max(threshold * 2 - quantity, threshold).
C3_CandidatesAndSuggestion ==
  resp.view = "order" =>
    /\ \A row \in Rows :
         row.id \in ListedIds <=> row.quantity <= row.threshold
    /\ \A k \in 1..Len(resp.order_items) :
         LET item   == resp.order_items[k]
             row    == RowOf(item.id)
             double == row.threshold * 2 - row.quantity
         IN /\ item.current_qty = row.quantity
            /\ item.threshold = row.threshold
            /\ item.suggested_order >= double
            /\ item.suggested_order >= row.threshold
            /\ item.suggested_order \in {double, row.threshold}

\* An order view that leaves out an item above its threshold, and suggests
\* twice the threshold less the stock for an item below its threshold and
\* twice the threshold for an item out of stock.
C3_Witness ==
  /\ resp.view = "order"
  /\ \E r \in Rows : r.quantity > r.threshold /\ r.id \notin ListedIds
  /\ \E k \in 1..Len(resp.order_items) :
       /\ resp.order_items[k].current_qty > 0
       /\ resp.order_items[k].current_qty < resp.order_items[k].threshold
       /\ resp.order_items[k].suggested_order
            = resp.order_items[k].threshold * 2 - resp.order_items[k].current_qty
  /\ \E k \in 1..Len(resp.order_items) :
       /\ resp.order_items[k].current_qty = 0
       /\ resp.order_items[k].threshold = 10
       /\ resp.order_items[k].suggested_order = 20

\* The quantity a form requests for an item: missing, empty and non-numeric
\* requests count as 0.
Requested(f, id) ==
  LET v == FormGet(f, ORDER_QTY_ \o Str(id))
  IN IF v = None \/ v = <<>> \/ ~PyInt(v).ok THEN 0 ELSE IntVal(PyInt(v))

\* The candidates among the rows the compose request read for which its
\* form requests a positive quantity.
Selected ==
  {r \in Rows : r.quantity <= r.threshold /\ Requested(form, r.id) > 0}

CategoryThenName(a, b) ==
  \/ TextLess(a.category, b.category)
  \/ a.category = b.category /\ TextLess(a.item_name, b.item_name)

\* The selected rows in (category, name) order.
SelectedInOrder ==
  CHOOSE s \in [1..Cardinality(Selected) -> Selected] :
    \A a, b \in 1..Cardinality(Selected) :
      a < b => CategoryThenName(s[a], s[b])

ExpectedLine(row) ==
  LET note == FormGet(form, NOTE_ \o Str(row.id))
  IN row.item_name \o <<" ", "x", " ">> \o Str(Requested(form, row.id))
     \o (IF note = None \/ note = <<>> THEN <<>>
         ELSE <<" ", "(">> \o note \o <<")">>)

\* C4: a composed message is the header line followed by exactly one line
\* per item that is a candidate in the store at compose time and has a
\* requested quantity > 0, each "<name> x <qty>" with " (<note>)" only for
\* a non-empty note, in (category, name) order; other items give no line.
C4_MessageLines ==
  resp.view = "order_message" =>
    Split(resp.order_message, "\n")
      = <<SubSeq(HEADER, 1, Len(HEADER) - 1)>>
        \o [k \in 1..Cardinality(Selected) |-> ExpectedLine(SelectedInOrder[k])]

\* A message over two categories with two quantities: Chips x 1, Buns x 2
\* and Block x 1 were requested in id order; the lines are Buns and Chips
\* (one category, by name), then Block (the later category, the earliest
\* name), each with its own quantity.
C4_Witness ==
  /\ resp.view = "order_message"
  /\ form = <<OrderQty(1, <<"1">>), OrderQty(2, <<"2">>),
              OrderQty(OtherId, <<"1">>)>>
  /\ Split(resp.order_message, "\n")
       = <<SubSeq(HEADER, 1, Len(HEADER) - 1),
           <<"B", "u", "n", "s", " ", "x", " ", "2">>,
           <<"C", "h", "i", "p", "s", " ", "x", " ", "1">>,
           <<"B", "l", "o", "c", "k", " ", "x", " ", "1">>>>

OrderViews == {"order_message", "redirect_order"}

\* C5: composing produces a message if and only if some candidate has a
\* requested quantity > 0; otherwise it reports the empty selection with no
\* message; and the step that answers a compose request leaves the item
\* store unchanged.
C5_EmptySelection ==
  /\ [](resp.view \in OrderViews =>
          /\ resp.view = "order_message" <=> Selected # {}
          /\ resp.view = "redirect_order" =>
               /\ DOMAIN resp = {"view", "flash"}
               /\ resp.flash = "No items selected for ordering.")
  /\ [][(resp'.view \in OrderViews /\ <<resp, form, fetched>>' # <<resp, form, fetched>>)
          => inventory' = inventory]_vars

\* An empty selection although a positive quantity was requested, for an
\* item that is not a candidate.
C5_Witness ==
  /\ resp.view = "redirect_order"
  /\ \E r \in Rows : Requested(form, r.id) > 0 /\ r.quantity > r.threshold

\* C6: quantity and threshold of every item are non-negative integers in
\* every state reachable from the seeded store by bulk updates.
C6_NonNegative ==
  \A row \in Stored :
    /\ row.quantity \in Nat
    /\ row.threshold \in Nat

\* The number a submitted value stands for: unparseable text counts as 0.
IntOrZero(v) == IF PyInt(v).ok THEN IntVal(PyInt(v)) ELSE 0

\* The entries a form submits: its quantity_<id> fields.
Entries(f) == {i \in 1..Len(f) : StartsWith(f[i][1], QUANTITY_)}

\* An entry is applied when the rows hold an item with the identifier the
\* entry carries, with the submitted quantity, and with the submitted
\* threshold when threshold_<id> was supplied.
EntryApplied(f, i, rows) ==
  LET id == SubSeq(f[i][1], Len(QUANTITY_) + 1, Len(f[i][1]))
      t  == FormGet(f, THRESHOLD_ \o id)
  IN \E k \in 1..Len(rows) :
       /\ Str(rows[k].id) = id
       /\ rows[k].quantity = IntOrZero(f[i][2])
       /\ t # None => rows[k].threshold = IntOrZero(t)

\* C7: a bulk update is all-or-nothing. The step that ends a request
\* leaves every quantity_<id> entry of its form applied to the committed
\* rows, entries with malformed identifiers counted, or leaves the rows as
\* they were; and the committed rows change in no other step of a request
\* than its commit.
C7_AllOrNothing ==
  /\ [][\A t \in Threads :
          (threads[t].pc = "commit" /\ threads'[t].pc = "ready")
            => \/ \A i \in Entries(threads[t].form) :
                    EntryApplied(threads[t].form, i, inventory')
               \/ inventory' = inventory]_vars
  /\ [][inventory' # inventory =>
          \E t \in Threads :
            \/ threads[t].pc = "commit" /\ threads'[t].pc = "ready"
            \/ threads[t].pc = "seed_commit" /\ threads'[t].pc = "ready"]_vars

\* C8: every listed order candidate's suggested quantity is never negative,
\* never less than the item's threshold, and 0 whenever the threshold is 0.
C8_SuggestionRange ==
  resp.view = "order" =>
    \A k \in 1..Len(resp.order_items) :
      LET item == resp.order_items[k]
      IN /\ item.suggested_order >= 0
         /\ item.suggested_order >= item.threshold
         /\ item.threshold = 0 => item.suggested_order = 0

\* C9: the dashboard's summary counts equal the sizes of the grouping's
\* needs, low and good buckets.
C9_SummaryMatchesBuckets ==
  resp.view = "dashboard" =>
    /\ resp.summary.out = BucketCount("needs")
    /\ resp.summary.low = BucketCount("low")
    /\ resp.summary.good = BucketCount("good")

\* The ids the order view lists over the committed rows.
CandidateIds ==
  LET rows  == OrderBy(inventory)
      items == OrderItems(rows, Len(rows))
  IN {items[k].id : k \in 1..Len(items)}

\* C10: every item the dashboard classifies needs or low is an order
\* candidate over the same store, and a good item is a candidate only when
\* its quantity equals its threshold.
C10_UnderstockedListed ==
  \A row \in Stored :
    /\ Status(row) \in {"needs", "low"} => row.id \in CandidateIds
    /\ (Status(row) = "good" /\ row.id \in CandidateIds)
         => row.quantity = row.threshold
====
